---- MODULE Spec2Model ----
(***************************************************************************)
(* The investment council orchestrator: the rules evaluator, the           *)
(* reasoning-service evaluator, the stop check (termination_rules.py) and  *)
(* the orchestration loop with its agent invoker (orchestrator.py).        *)
(*                                                                         *)
(* Confidences are exact rationals written as integers in units of         *)
(* 1/ConfOne, so 0.75 is 2700 and 0.9 is 3240.  Every value of ConfGrid is *)
(* a multiple of 360, hence the sum of at most five of them is divisible   *)
(* by their count and Mean is the exact arithmetic mean.                   *)
(***************************************************************************)
EXTENDS Integers, Sequences, FiniteSets, TLC

\* ------------------------------------------------------------------------
\* Values
\* ------------------------------------------------------------------------

\* Python's None, and a key that is not in a dict at all.
None == [tag |-> "None"]
Missing == [tag |-> "Missing"]

\* confidence 1.0 (the upper end of the validator's range)
ConfOne == 3600
\* the consensus threshold 0.75
Threshold == 2700

\* the five output slots, in the order the evaluators and the history read them
SlotKeys ==
  << "risk_qualification", "devils_advocate", "personal_suitability",
     "market_analysis", "feasibility_analysis" >>

SlotKeySet == {SlotKeys[i] : i \in 1..Len(SlotKeys)}

\* the three slots CouncilState is constructed with (set to None)
InitialSlotKeys == {"risk_qualification", "devils_advocate", "personal_suitability"}

\* the keys of an AgentOutput
AgentOutputKeys ==
  { "agent_name", "verdict", "confidence", "key_findings", "blocking_issues",
    "recommendations", "reasoning", "metrics" }

Verdicts == {"APPROVE", "MODIFY", "REJECT"}

\* state.get(key): None for a key that is missing and for a key holding None
Get(s, k) == IF s[k] = Missing THEN None ELSE s[k]

EvaluationResult(action, reason, details) ==
  [action |-> action, reason |-> reason, details |-> details]

\* ------------------------------------------------------------------------
\* termination_rules.py
\* ------------------------------------------------------------------------

\* outputs = [state.get(k) for the five keys]; outputs = [o for o in outputs if o is not None]
PresentOutputs(s) ==
  LET all == [i \in 1..Len(SlotKeys) |-> Get(s, SlotKeys[i])]
  IN  SelectSeq(all, LAMBDA o : o # None)

RECURSIVE SumConfidence(_)
SumConfidence(outputs) ==
  IF outputs = <<>> THEN 0
  ELSE Head(outputs).confidence + SumConfidence(Tail(outputs))

\* sum(o["confidence"] for o in outputs) / len(outputs)
Mean(outputs) == SumConfidence(outputs) \div Len(outputs)

\* the index of the last output of the sequence that reports agent name n
LastIndexOf(outputs, n) ==
  CHOOSE i \in 1..Len(outputs) :
    /\ outputs[i].agent_name = n
    /\ \A j \in (i+1)..Len(outputs) : outputs[j].agent_name # n

\* {o["agent_name"]: o[field] for o in outputs}: a later output replaces the
\* entry of an earlier one that reports the same agent_name
DictByAgentName(outputs, field) ==
  [n \in {outputs[i].agent_name : i \in 1..Len(outputs)} |->
      outputs[LastIndexOf(outputs, n)][field]]

\* (mutant) the filter on the verdict is lost
RejectingAgents_AllPresent(outputs) ==
  [i \in 1..Len(outputs) |-> outputs[i].agent_name]

RejectingAgents(outputs) ==
  LET rejecting == SelectSeq(outputs, LAMBDA o : o.verdict = "REJECT")
  IN  [i \in 1..Len(rejecting) |-> rejecting[i].agent_name]

BlockingAgents(outputs) ==
  DictByAgentName(SelectSeq(outputs, LAMBDA o : o.blocking_issues # <<>>),
                  "blocking_issues")

\* (mutant) an empty council counts as agreement
NoOutputsResult_Consensus ==
  EvaluationResult("TERMINATE", "CONSENSUS", [message |-> "Waiting for agent outputs"])

\* the result for a state in which no agent has reported yet
NoOutputsResult ==
  EvaluationResult("REITERATE", "NO_OUTPUTS", [message |-> "Waiting for agent outputs"])

\* (mutant) the threshold itself counts as low confidence
BelowThreshold_Inclusive(avg_confidence) == avg_confidence <= Threshold

\* avg_confidence < 0.75
BelowThreshold(avg_confidence) == avg_confidence < Threshold

evaluate_council(s) ==
  LET outputs == PresentOutputs(s) IN
  IF outputs = <<>>
  THEN NoOutputsResult
  ELSE IF \E i \in 1..Len(outputs) : outputs[i].verdict = "REJECT"
  THEN EvaluationResult("REITERATE", "REJECT",
                        [rejecting_agents |-> RejectingAgents(outputs)])
  ELSE IF DOMAIN BlockingAgents(outputs) # {}
  THEN EvaluationResult("REITERATE", "BLOCKING_ISSUES",
                        [blocking_agents |-> BlockingAgents(outputs)])
  ELSE IF BelowThreshold(Mean(outputs))
  THEN EvaluationResult("REITERATE", "LOW_CONFIDENCE",
         [average_confidence |-> Mean(outputs),
          threshold |-> Threshold,
          agent_confidences |-> DictByAgentName(outputs, "confidence")])
  ELSE EvaluationResult("TERMINATE", "CONSENSUS",
         [average_confidence |-> Mean(outputs),
          verdicts |-> DictByAgentName(outputs, "verdict"),
          agent_count |-> Len(outputs)])

\* should_terminate(state): the rules cascade is recomputed from the slots;
\* state["decision"] is not read
\* (mutant) below the cap the loop stops unless an agent rejects
should_terminate_UnlessRejected(s, max_iter, iter) ==
  iter >= max_iter \/ evaluate_council(s).reason # "REJECT"

should_terminate(s, max_iter, iter) ==
  LET evaluation == evaluate_council(s) IN
  IF iter >= max_iter THEN TRUE
  ELSE IF evaluation.action = "TERMINATE" THEN TRUE
  ELSE FALSE

\* ------------------------------------------------------------------------
\* The reasoning service (ai_engine.reason) as evaluate_with_ai_engine sees it
\* ------------------------------------------------------------------------

Engine == [tag |-> "Engine"]

\* str.upper(), one character at a time; a string is a sequence of characters
UpperChar(c) ==
  CASE c = "a" -> "A" [] c = "b" -> "B" [] c = "c" -> "C" [] c = "d" -> "D"
    [] c = "e" -> "E" [] c = "f" -> "F" [] c = "g" -> "G" [] c = "h" -> "H"
    [] c = "i" -> "I" [] c = "j" -> "J" [] c = "k" -> "K" [] c = "l" -> "L"
    [] c = "m" -> "M" [] c = "n" -> "N" [] c = "o" -> "O" [] c = "p" -> "P"
    [] c = "q" -> "Q" [] c = "r" -> "R" [] c = "s" -> "S" [] c = "t" -> "T"
    [] c = "u" -> "U" [] c = "v" -> "V" [] c = "w" -> "W" [] c = "x" -> "X"
    [] c = "y" -> "Y" [] c = "z" -> "Z" [] OTHER -> c

\* (mutant) the action is compared as the service spelled it
Upper_AsReturned(chars) == chars

Upper(chars) == [i \in 1..Len(chars) |-> UpperChar(chars[i])]

REITERATE == <<"R", "E", "I", "T", "E", "R", "A", "T", "E">>
TERMINATE == <<"T", "E", "R", "M", "I", "N", "A", "T", "E">>

\* the literal an accepted action is equal to
ActionLiteral(chars) == IF chars = TERMINATE THEN "TERMINATE" ELSE "REITERATE"

Str(chars) == [tag |-> "Str", chars |-> chars]
NotAString == [tag |-> "NotAString"]

\* what one call of ai_engine.reason(prompt) can do: raise, return something
\* that is no mapping, or return a mapping whose "action" is absent, is no
\* string, or is a string, and whose "reason" is absent or a string
Mapping(action, reason) ==
  [kind |-> "mapping", action |-> action, reason |-> reason, ai_reasoning |-> Missing]

ServiceResponses ==
  { [kind |-> "raise"],
    [kind |-> "not_a_mapping"],
    Mapping(Missing, Str("unclear")),
    Mapping(NotAString, Str("unclear")),
    Mapping(Str(TERMINATE), Str("agreement")),
    Mapping(Str(<<"t", "e", "r", "m", "i", "n", "a", "t", "e">>), Missing),
    Mapping(Str(REITERATE), Str("unclear")),
    Mapping(Str(<<"R", "e", "i", "t", "e", "r", "a", "t", "e">>), Str("unclear")),
    Mapping(Str(<<"S", "T", "O", "P">>), Str("agreement")) }

\* the behaviours of the service the orchestration loop is run against
LoopResponses ==
  { [kind |-> "raise"],
    Mapping(Str(TERMINATE), Str("agreement")),
    Mapping(Str(<<"r", "e", "i", "t", "e", "r", "a", "t", "e">>), Str("unclear")) }

\* result.get(key, default) on the returned mapping
ResultGet(field, default) == IF field = Missing THEN default ELSE field

\* f"AI_DECISION: {result.get('reason', 'No reason')}"
AIReason(result) ==
  LET reason == ResultGet(result.reason, Str("No reason"))
  IN  "AI_DECISION: " \o reason.chars

\* the body of the try block once ai_engine.reason has returned `result`;
\* [raised |-> TRUE] when a statement of it raises
ParseAIResponse(result, outputs) ==
  IF result.kind # "mapping" THEN [raised |-> TRUE]       \* result.get: AttributeError
  ELSE LET got == ResultGet(result.action, Str(REITERATE)) IN
       IF got.tag # "Str" THEN [raised |-> TRUE]           \* .upper(): AttributeError
       ELSE LET upper == Upper(got.chars)
                action == IF upper \notin {REITERATE, TERMINATE} THEN REITERATE ELSE upper
            IN  [raised |-> FALSE,
                 value |-> EvaluationResult(ActionLiteral(action), AIReason(result),
                   [ai_reasoning |-> ResultGet(result.ai_reasoning, Str("No reasoning")),
                    agent_verdicts |-> DictByAgentName(outputs, "verdict"),
                    agent_confidences |-> DictByAgentName(outputs, "confidence"),
                    total_agents |-> Len(outputs)])]

\* (mutant) a failed call yields a fixed REITERATE, as evaluate_with_ai of
\* ai_integration.py does, instead of the rules result
OnServiceFailure_Reiterate(s) ==
  EvaluationResult("REITERATE", "AI_ERROR", [message |-> "AI evaluation error"])

\* except Exception: return evaluate_council(state)
OnServiceFailure(s) == evaluate_council(s)

\* the exception that leaves evaluate_with_ai_engine when the prompt cannot be
\* built: the f-string is outside the try block
TypeError == [raised |-> "TypeError"]

\* ', '.join(a['key_findings']) for every output: raises on a value that is
\* not a list of strings
PromptRaises(outputs) ==
  \E i \in 1..Len(outputs) : outputs[i].key_findings.tag # "list"

\* (mutant) the service is asked before the outputs are looked at
ServiceCalled_WithoutOutputs(engine, s) ==
  engine # None /\ ~PromptRaises(PresentOutputs(s))

\* whether evaluate_with_ai_engine reaches ai_engine.reason(prompt)
ServiceCalled(engine, s) ==
  PresentOutputs(s) # <<>> /\ engine # None /\ ~PromptRaises(PresentOutputs(s))

\* (mutant) a call that raised is made once more
ReasonCalls_Retry(engine, s, response) ==
  IF ~ServiceCalled(engine, s) THEN <<>>
  ELSE IF response.kind = "raise" THEN << response, response >>
  ELSE << response >>

\* the calls of ai_engine.reason one evaluate_with_ai_engine makes, with what
\* each did: the one call in the try block, if it is reached
ReasonCalls(engine, s, response) ==
  IF ServiceCalled(engine, s) THEN << response >> ELSE <<>>

\* evaluate_with_ai_engine(ai_engine, state, ...) when the call of the service,
\* if it is reached, behaves as `response`
evaluate_with_ai_engine(engine, s, response) ==
  LET outputs == PresentOutputs(s) IN
  IF outputs = <<>>
  THEN EvaluationResult("REITERATE", "NO_OUTPUTS",
                        [message |-> "Waiting for agent outputs"])
  ELSE IF engine = None THEN evaluate_council(s)
  ELSE IF PromptRaises(outputs) THEN TypeError
  ELSE IF response.kind = "raise" THEN OnServiceFailure(s)
  ELSE LET parsed == ParseAIResponse(response, outputs) IN
       IF parsed.raised THEN OnServiceFailure(s) ELSE parsed.value

\* ------------------------------------------------------------------------
\* orchestrator.py: the Orchestrator object and the CouncilState it drives
\* ------------------------------------------------------------------------

\* the largest max_iterations an Orchestrator is constructed with
MaxIterations == 2

VARIABLES
  pc,                     \* where the caller / orchestrate() stands
  script,                 \* the register_agent calls the caller still makes
  agents,                 \* self.agents, in insertion order
  use_ai_decisions,       \* self.use_ai_decisions
  ai_engine,              \* self.ai_engine
  engine_load,            \* what load_ai_engine_from_env did in the constructor
  self_max_iterations,    \* self.max_iterations
  inputs,                 \* state: user_profile, asset_candidate, market_context, position
  slots,                  \* state: the five agent output slots
  iteration,              \* state["iteration"]
  decision,               \* state["decision"]
  max_iterations,         \* state["max_iterations"]
  debate_history,         \* state["debate_history"]
  pending_modifications,  \* state["pending_modifications"]
  modification_synthesis, \* state["modification_synthesis"]
  returns,                \* what each agent did in call_agents in the pass under way
  invoked,                \* the agents that call_agents invoked, in order
  service,                \* the engine passed to the evaluator that has just returned,
                          \* and what its reason() did (None: reason() was not called)
  result,                 \* the value returned by the evaluator applied last, the
                          \* modify_agents apply_modifications collected last, or
                          \* the value get_final_recommendation returned
  lookups                 \* the data_provider calls initialize_state made, and how each ended

vars ==
  << pc, script, agents, use_ai_decisions, ai_engine, engine_load,
     self_max_iterations, inputs, slots, iteration, decision, max_iterations, debate_history,
     pending_modifications, modification_synthesis, returns, invoked, service,
     result, lookups >>

orchestratorVars == << use_ai_decisions, ai_engine, engine_load, self_max_iterations >>
modificationVars == << pending_modifications, modification_synthesis >>
observed == << returns, invoked, service, result, lookups >>

\* an agent's returned mapping: the keys it has and the values the orchestrator reads
\* (key_findings is a list of strings unless WithKeyFindings says otherwise)
Output(keys, name, verdict, confidence, issues, recommendations) ==
  [keys |-> keys, agent_name |-> name, verdict |-> verdict, confidence |-> confidence,
   blocking_issues |-> issues, recommendations |-> recommendations,
   key_findings |-> [tag |-> "list", items |-> <<>>]]

\* the same output with another value under "key_findings"; the validator
\* reads the key, not the value, so None is accepted
WithKeyFindings(output, value) == [output EXCEPT !.key_findings = value]

Raise == [kind |-> "raise"]
Return(output) == [kind |-> "return", output |-> output]

\* what the callable registered under `name` can do in one invocation
AgentReturns(name) ==
  { Raise,
    Return(Output(AgentOutputKeys, name, "APPROVE", ConfOne + 360, <<>>, <<>>)),
    Return(Output(AgentOutputKeys, name, "APPROVE", 3240, <<>>, <<>>)),
    Return(Output(AgentOutputKeys, name, "MODIFY", 1800, <<>>, <<"reduce position">>)),
    Return(Output(AgentOutputKeys, name, "REJECT", 3240, <<"illiquid">>, <<>>)),
    Return(WithKeyFindings(Output(AgentOutputKeys, name, "APPROVE", 3240, <<>>, <<>>),
                           None)) }

\* _validate_agent_output
required_keys ==
  { "agent_name", "verdict", "confidence", "key_findings", "blocking_issues",
    "recommendations", "metrics" }

_validate_agent_output(output) ==
  IF ~(required_keys \subseteq output.keys) THEN FALSE
  ELSE IF output.verdict \notin {"APPROVE", "MODIFY", "REJECT"} THEN FALSE
  ELSE IF ~(0 <= output.confidence /\ output.confidence <= ConfOne) THEN FALSE
  ELSE TRUE

\* _store_agent_output: state_key_map.get(agent_name), and the store when it is set
state_key_map == [k \in SlotKeySet |-> k]

\* (mutant) the output is stored under the name of the agent
state_key_AgentName(agent_name) == agent_name

\* state_key = state_key_map.get(agent_name); "None" when the name is not mapped
state_key(agent_name) ==
  IF agent_name \in DOMAIN state_key_map THEN state_key_map[agent_name] ELSE "None"

\* state[state_key] = output, on the output slots of the state
_store_agent_output(s, agent_name, output) ==
  IF state_key(agent_name) \in DOMAIN s
  THEN [s EXCEPT ![state_key(agent_name)] = output]
  ELSE s

\* state[state_key] = output, on the run inputs of the state
StoreInInputs(ins, agent_name, output) ==
  IF state_key(agent_name) \in DOMAIN ins
  THEN [ins EXCEPT ![state_key(agent_name)] = output]
  ELSE ins

\* (mutant) a returned output is stored without being validated
CallAgent_StoreUnvalidated(s, name, ret) ==
  IF ret.kind = "raise" THEN s
  ELSE _store_agent_output(s, name, ret.output)

\* (mutant) devils_advocate is declared without the risk_qualification slot
agent_inputs_Isolated ==
  [risk_qualification |-> <<"user_profile", "asset_candidate", "market_context", "position">>,
   devils_advocate |-> <<"asset_candidate", "market_context">>,
   personal_suitability |-> <<"user_profile", "asset_candidate", "position">>]

\* self.agent_inputs: the state fields each agent is handed
agent_inputs ==
  [risk_qualification |-> <<"user_profile", "asset_candidate", "market_context", "position">>,
   devils_advocate |-> <<"asset_candidate", "market_context", "risk_qualification">>,
   personal_suitability |-> <<"user_profile", "asset_candidate", "position">>]

\* (mutant) a slot that is still None does not count as held by the state
InState_SlotFilled(s, field) ==
  IF field \in SlotKeySet THEN s[field] \notin {Missing, None} ELSE field \in DOMAIN inputs

\* `field in state` and state[field], for the state whose output slots are s
\* (a slot set to None is in the state, a slot never set is not)
InState(s, field) ==
  IF field \in SlotKeySet THEN s[field] # Missing ELSE field \in DOMAIN inputs

StateField(s, field) == IF field \in SlotKeySet THEN s[field] ELSE inputs[field]

\* _prepare_agent_input(state, agent_name): the declared fields that are in the
\* state (no field for a name that agent_inputs does not know)
_prepare_agent_input(s, agent_name) ==
  LET required_inputs ==
        IF agent_name \in DOMAIN agent_inputs THEN agent_inputs[agent_name] ELSE <<>>
      fields == {required_inputs[i] : i \in {j \in 1..Len(required_inputs) :
                                               InState(s, required_inputs[j])}}
  IN  [field \in fields |-> StateField(s, field)]

\* one turn of the for loop: the agent, and the agent_input it is called with
Invocation(registration, agent_input) ==
  [name |-> registration.name, callable |-> registration.callable, input |-> agent_input]

\* (mutant) the slot of an agent that raised or returned an invalid output is emptied
CallAgent_ClearOnFailure(s, name, ret) ==
  IF ret.kind = "return" /\ _validate_agent_output(ret.output)
  THEN _store_agent_output(s, name, ret.output)
  ELSE IF name \in DOMAIN s THEN [s EXCEPT ![name] = None] ELSE s

\* the body of the try block of call_agents for the agent `name` whose
\* callable does `ret`: the state as the turn leaves it
CallAgent(s, name, ret) ==
  IF ret.kind = "raise" THEN s                          \* except Exception: continue
  ELSE IF ~_validate_agent_output(ret.output) THEN s    \* invalid output: continue
  ELSE _store_agent_output(s, name, ret.output)

\* the for loop of call_agents over self.agents.items() from position i on;
\* `run` is the state and the invocations made so far
RECURSIVE CallAgentsFrom(_, _, _, _)
CallAgentsFrom(run, registry, rets, i) ==
  IF i > Len(registry) THEN run
  ELSE CallAgentsFrom(
         [slots |-> CallAgent(run.slots, registry[i].name, rets[registry[i].name]),
          invoked |-> Append(run.invoked,
                             Invocation(registry[i],
                                        _prepare_agent_input(run.slots, registry[i].name)))],
         registry, rets, i + 1)

\* what the for loop of call_agents does to the run inputs of the state
CallAgentInputs(ins, name, ret) ==
  IF ret.kind = "raise" THEN ins
  ELSE IF ~_validate_agent_output(ret.output) THEN ins
  ELSE StoreInInputs(ins, name, ret.output)

RECURSIVE InputsAfterCalls(_, _, _, _)
InputsAfterCalls(ins, registry, rets, i) ==
  IF i > Len(registry) THEN ins
  ELSE InputsAfterCalls(CallAgentInputs(ins, registry[i].name, rets[registry[i].name]),
                        registry, rets, i + 1)

RegisteredNames(registry) == {registry[i].name : i \in 1..Len(registry)}

\* (mutant) every registration adds an entry
RegistryPut_Append(registry, name, callable) ==
  Append(registry, [name |-> name, callable |-> callable])

\* self.agents[agent_name] = agent_callable: a known name keeps its place
RegistryPut(registry, name, callable) ==
  IF name \in RegisteredNames(registry)
  THEN [i \in 1..Len(registry) |->
          IF registry[i].name = name
          THEN [name |-> name, callable |-> callable] ELSE registry[i]]
  ELSE Append(registry, [name |-> name, callable |-> callable])

\* the snapshot orchestrate appends to debate_history; "None" stands for Python's
\* None where a verdict or a reason string would be
VerdictOf(s, k) == IF Get(s, k) # None THEN Get(s, k).verdict ELSE "None"

\* (mutant) the record keeps the action of the decision, not its reason
IterationRecord_Action(s, iter, dec) ==
  [iteration |-> iter,
   verdicts |-> [k \in SlotKeySet |-> VerdictOf(s, k)],
   decision |-> IF dec # None THEN dec.action ELSE "None"]

IterationRecord(s, iter, dec) ==
  [iteration |-> iter,
   verdicts |-> [k \in SlotKeySet |-> VerdictOf(s, k)],
   decision |-> IF dec # None THEN dec.reason ELSE "None"]

\* modify_agents of apply_modifications
ModifyAgents(s) ==
  LET outputs == SelectSeq(PresentOutputs(s), LAMBDA o : o.verdict = "MODIFY")
  IN  [i \in 1..Len(outputs) |->
         [agent |-> outputs[i].agent_name,
          recommendations |-> outputs[i].recommendations]]

\* ------------------------------------------------------------------------
\* The caller and the orchestration loop
\* ------------------------------------------------------------------------

Registration(name, callable) == [name |-> name, callable |-> callable]

\* the register_agent calls a caller makes before it calls orchestrate
Scripts ==
  { << Registration("risk_qualification", "f") >>,
    << Registration("risk_qualification", "f"), Registration("devils_advocate", "g") >>,
    << Registration("devils_advocate", "g"), Registration("risk_qualification", "f") >>,
    << Registration("market_analysis", "f"), Registration("custom_agent", "g") >>,
    << Registration("user_profile", "f") >>,
    << Registration("risk_qualification", "f"), Registration("devils_advocate", "g"),
       Registration("risk_qualification", "h") >> }

Some(v) == [tag |-> "Some", value |-> v]

\* a CouncilState that does not exist yet
NoState ==
  /\ inputs = None
  /\ slots = [k \in SlotKeySet |-> Missing]
  /\ iteration = 0
  /\ decision = None
  /\ max_iterations = 0
  /\ debate_history = <<>>
  /\ pending_modifications = Missing
  /\ modification_synthesis = Missing

NothingObserved ==
  /\ returns = <<>>
  /\ invoked = <<>>
  /\ service = None
  /\ result = None
  /\ lookups = <<>>

\* what load_ai_engine_from_env() can do: raise (unknown engine type, missing
\* credentials or package), return None (no engine configured), return an engine
LoadOutcomes == {"raise", "none", "engine"}

\* (mutant) the engine that could not be set up is kept
EngineAfterLoadFailure_Kept == Engine

\* except Exception: log a warning; self.ai_engine = None
EngineAfterLoadFailure == None

\* self.ai_engine as __init__ leaves it, for the ai_engine argument, the flag
\* and the outcome of load_ai_engine_from_env
ConstructedEngine(ai_engine_arg, flag, load) ==
  IF ai_engine_arg # None THEN ai_engine_arg
  ELSE IF flag
  THEN CASE load = "engine" -> Engine
         [] load = "none" -> None
         [] load = "raise" -> EngineAfterLoadFailure
  ELSE None

\* whether __init__ calls load_ai_engine_from_env, and with which outcome
LoadAttempt(ai_engine_arg, flag, load) ==
  IF ai_engine_arg = None /\ flag THEN load ELSE "not attempted"

\* Orchestrator(max_iterations, ai_engine, data_provider, use_ai_decisions) has returned
Init ==
  /\ pc = "setup"
  /\ script \in Scripts
  /\ agents = <<>>
  /\ use_ai_decisions \in BOOLEAN
  /\ \E ai_engine_arg \in {None, Engine}, load \in LoadOutcomes :
       /\ ai_engine = ConstructedEngine(ai_engine_arg, use_ai_decisions, load)
       /\ engine_load = LoadAttempt(ai_engine_arg, use_ai_decisions, load)
  /\ self_max_iterations \in (0 - 1)..MaxIterations
  /\ NoState
  /\ NothingObserved

stateVars ==
  << inputs, slots, iteration, decision, max_iterations, debate_history,
     pending_modifications, modification_synthesis >>

register_agent ==
  /\ pc = "setup"
  /\ script # <<>>
  /\ agents' = RegistryPut(agents, Head(script).name, Head(script).callable)
  /\ script' = Tail(script)
  /\ UNCHANGED << pc, orchestratorVars, stateVars, observed >>

\* the three lookups of initialize_state, in the order it makes them
DataLookups == << "get_user_profile", "get_asset_candidate", "get_market_context" >>

\* the calls made when lookup number `failing` raises (0: none does): the try
\* block is left at the first lookup that raises
LookupsMade(failing) ==
  IF failing = 0
  THEN [i \in 1..Len(DataLookups) |-> [lookup |-> DataLookups[i], outcome |-> "return"]]
  ELSE [i \in 1..failing |->
          [lookup |-> DataLookups[i],
           outcome |-> IF i = failing THEN "raise" ELSE "return"]]

\* (mutant) the except clause logs the failure and the run goes on
OnLookupFailure_Continue == "increment"

\* except Exception: log, raise
OnLookupFailure == "failed"

\* orchestrate() up to the loop: initialize_state, whose lookups return or raise
\* what a data_provider lookup returned, and the Position built from the arguments
Loaded(what) == [tag |-> "loaded", what |-> what]

\* user_profile, asset_candidate, market_context, position of the new state
LoadedInputs ==
  [user_profile |-> Loaded("user_profile"),
   asset_candidate |-> Loaded("asset_candidate"),
   market_context |-> Loaded("market_context"),
   position |-> Loaded("position")]

\* (mutant) the cap is tested before the first pass
LoopEntry_CapFirst(max_iter) == IF max_iter <= 0 THEN "done" ELSE "increment"

\* while True: the first pass starts whatever max_iterations is
LoopEntry(max_iter) == "increment"

initialize_state ==
  /\ pc = "setup"
  /\ script = <<>>
  /\ \E failing \in 0..Len(DataLookups) :
       /\ lookups' = LookupsMade(failing)
       /\ IF failing = 0
          THEN /\ inputs' = LoadedInputs
               /\ slots' = [k \in SlotKeySet |->
                              IF k \in InitialSlotKeys THEN None ELSE Missing]
               /\ iteration' = 0
               /\ decision' = None
               /\ max_iterations' = self_max_iterations
               /\ debate_history' = <<>>
               /\ pc' = LoopEntry(self_max_iterations)
          ELSE /\ pc' = OnLookupFailure
               /\ UNCHANGED << inputs, slots, iteration, decision, max_iterations,
                               debate_history >>
  /\ UNCHANGED << script, agents, orchestratorVars, modificationVars, returns, invoked,
                  service, result >>

\* a loop that counts each pass twice
IncrementedIteration_Twice(i) == i + 2

\* state["iteration"] += 1
IncrementedIteration(i) == i + 1

\* Step 1: state["iteration"] += 1
IncrementIteration ==
  /\ pc = "increment"
  /\ iteration' = IncrementedIteration(iteration)
  /\ pc' = "call"
  /\ UNCHANGED << script, agents, orchestratorVars, inputs, slots, decision,
                  max_iterations, debate_history, modificationVars, observed >>

\* Step 2: call_agents(state), every registered agent invoked in registry order
call_agents ==
  /\ pc = "call"
  /\ \E rets \in [RegisteredNames(agents) -> UNION {AgentReturns(n) : n \in RegisteredNames(agents)}] :
       /\ \A n \in RegisteredNames(agents) : rets[n] \in AgentReturns(n)
       /\ LET run == CallAgentsFrom([slots |-> slots, invoked |-> <<>>], agents, rets, 1)
          IN  /\ slots' = run.slots
              /\ invoked' = run.invoked
       /\ inputs' = InputsAfterCalls(inputs, agents, rets, 1)
       /\ returns' = rets
  /\ pc' = "evaluate"
  /\ UNCHANGED << script, agents, orchestratorVars, iteration, decision,
                  max_iterations, debate_history, modificationVars, service, result,
                  lookups >>

\* (mutant) the flag is not consulted
AIStrategySelected_EngineOnly(flag, engine) == engine # None

\* if self.use_ai_decisions and self.ai_engine
AIStrategySelected(flag, engine) == flag /\ engine # None

\* Step 3: evaluate_and_decide(state)
evaluate_and_decide ==
  /\ pc = "evaluate"
  /\ IF AIStrategySelected(use_ai_decisions, ai_engine)
     THEN \E response \in LoopResponses :
            LET evaluation == evaluate_with_ai_engine(ai_engine, slots, response) IN
            /\ IF evaluation = TypeError       \* propagates out of orchestrate
               THEN pc' = "raised" /\ UNCHANGED decision
               ELSE pc' = "record" /\ decision' = evaluation
            /\ service' = [engine |-> ai_engine,
                           response |-> IF ServiceCalled(ai_engine, slots)
                                        THEN response ELSE None,
                           calls |-> ReasonCalls(ai_engine, slots, response)]
     ELSE /\ decision' = evaluate_council(slots)
          /\ service' = None
          /\ pc' = "record"
  /\ invoked' = <<>>
  /\ UNCHANGED << script, agents, orchestratorVars, inputs, slots, iteration,
                  max_iterations, debate_history, modificationVars, returns, result,
                  lookups >>

\* (mutant) the history keeps the record of the last pass only
HistoryAppend_Replace(history, iteration_record) == << iteration_record >>

\* state["debate_history"].append(iteration_record)
HistoryAppend(history, iteration_record) == Append(history, iteration_record)

\* Step 4: state["debate_history"].append(iteration_record)
AddToHistory ==
  /\ pc = "record"
  /\ debate_history' = HistoryAppend(debate_history,
                                     IterationRecord(slots, iteration, decision))
  /\ service' = None
  /\ pc' = "check"
  /\ UNCHANGED << script, agents, orchestratorVars, inputs, slots, iteration, decision,
                  max_iterations, modificationVars, returns, invoked, result, lookups >>

\* (mutant) the stop check reads the decision the pass has stored
StopCheck_StoredDecision(dec, s, max_iter, iter) ==
  iter >= max_iter \/ dec.action = "TERMINATE"

\* should_terminate(state) on the state that holds the decision `dec`
StopCheck(dec, s, max_iter, iter) == should_terminate(s, max_iter, iter)

\* (mutant) the modifications are applied before the loop returns
AfterStopCheck_ModifyFirst(stop) == "modify"

\* if should_terminate(state): return state; otherwise on to apply_modifications
AfterStopCheck(stop) == IF stop THEN "done" ELSE "modify"

\* Step 5: if should_terminate(state): return state
CheckTermination ==
  /\ pc = "check"
  /\ pc' = AfterStopCheck(StopCheck(decision, slots, max_iterations, iteration))
  /\ returns' = IF StopCheck(decision, slots, max_iterations, iteration) THEN <<>>
                                                                     ELSE returns
  /\ UNCHANGED << script, agents, orchestratorVars, stateVars, invoked, service, result,
                  lookups >>

\* what self.ai_engine.reason(prompt) does in _synthesize_modifications_with_ai
SynthesisOutcomes == {[kind |-> "raise"], [kind |-> "synthesis"]}

\* (mutant) a failed synthesis leaves nothing to store
_synthesize_modifications_with_ai_Silent(outcome) ==
  IF outcome.kind = "raise" THEN None
  ELSE [synthesis |-> "structured list of actions"]

_synthesize_modifications_with_ai(outcome) ==
  IF outcome.kind = "raise" THEN [error |-> "service error"]
  ELSE [synthesis |-> "structured list of actions"]

\* (mutant) a pass without MODIFY verdict removes the modification context
KeptModifications_Cleared(current) == Missing

\* `if modify_agents:` is false: apply_modifications writes nothing, and the
\* entry an earlier pass wrote stays
KeptModifications(current) == current

\* (mutant) the synthesis is stored as the decision of the pass
synthesis_key_Decision == "decision"

\* state["modification_synthesis"] = modifications
synthesis_key == "modification_synthesis"

\* Step 6: apply_modifications(state)
apply_modifications ==
  /\ pc = "modify"
  /\ LET modify_agents == ModifyAgents(slots) IN
     IF modify_agents # <<>>
     THEN IF ai_engine # None
          THEN \E outcome \in SynthesisOutcomes :
                 LET modifications == _synthesize_modifications_with_ai(outcome) IN
                 /\ modification_synthesis' =
                      IF synthesis_key = "modification_synthesis"
                      THEN Some(modifications) ELSE modification_synthesis
                 /\ decision' = IF synthesis_key = "decision" THEN modifications
                                                              ELSE decision
                 /\ service' = [engine |-> ai_engine, response |-> None,
                                synthesis |-> outcome]
                 /\ UNCHANGED pending_modifications
          ELSE /\ pending_modifications' = Some(modify_agents)
               /\ UNCHANGED << modification_synthesis, decision, service >>
     ELSE /\ pending_modifications' = KeptModifications(pending_modifications)
          /\ modification_synthesis' = KeptModifications(modification_synthesis)
          /\ UNCHANGED << decision, service >>
  /\ result' = [modify_agents |-> ModifyAgents(slots)]
  /\ returns' = <<>>
  /\ pc' = "limit"
  /\ UNCHANGED << script, agents, orchestratorVars, inputs, slots, iteration,
                  max_iterations, debate_history, invoked, lookups >>

\* Step 7: if state["iteration"] >= state["max_iterations"]: overwrite and return
CheckIterationLimit ==
  /\ pc = "limit"
  /\ IF iteration >= max_iterations
     THEN /\ decision' = [action |-> "TERMINATE", reason |-> "MAX_ITERATIONS"]
          /\ pc' = "done"
     ELSE /\ pc' = "increment"
          /\ UNCHANGED decision
  /\ UNCHANGED << script, agents, orchestratorVars, inputs, slots, iteration,
                  max_iterations, debate_history, modificationVars, observed >>

\* _calculate_average_confidence(state): the mean confidence of the five slots
\* that hold an output, 0.0 when none does
_calculate_average_confidence(s) ==
  IF PresentOutputs(s) = <<>> THEN 0 ELSE Mean(PresentOutputs(s))

\* the keys of the "agent_verdicts" dictionary of get_final_recommendation
ReportedVerdictKeys == {"risk_qualification", "devils_advocate", "personal_suitability"}

\* the dictionary get_final_recommendation returns
FinalRecommendation(s, dec, iter, history) ==
  [recommendation |-> dec.reason,
   consensus |-> (dec.action = "TERMINATE"),
   iterations |-> iter,
   agent_verdicts |-> [k \in ReportedVerdictKeys |-> VerdictOf(s, k)],
   average_confidence |-> _calculate_average_confidence(s),
   debate_history |-> history]

\* get_final_recommendation(state) on the state orchestrate returned
get_final_recommendation ==
  /\ pc = "done"
  /\ result' = FinalRecommendation(slots, decision, iteration, debate_history)
  /\ pc' = "recommended"
  /\ UNCHANGED << script, agents, orchestratorVars, inputs, slots, iteration, decision,
                  max_iterations, debate_history, modificationVars, returns, invoked,
                  service, lookups >>

Next ==
  \/ register_agent
  \/ initialize_state
  \/ IncrementIteration
  \/ call_agents
  \/ evaluate_and_decide
  \/ AddToHistory
  \/ CheckTermination
  \/ apply_modifications
  \/ CheckIterationLimit
  \/ get_final_recommendation

Spec == Init /\ [][Next]_vars

\* the same loop when every call it makes returns or raises, so that no step
\* of orchestrate waits forever
SpecFair == Spec /\ WF_vars(Next)

\* ------------------------------------------------------------------------
\* The evaluators applied to council states drawn from a bounded set
\* ------------------------------------------------------------------------

\* the largest number of output slots that are filled in a drawn state
MaxPresent == 3

\* an agent name that is no slot key, reported by outputs that do not carry the
\* name of the slot they are stored in (the validator does not read the value)
OtherName == "council_member"

\* a slot that holds no output: None in a slot CouncilState was built with,
\* no key at all for the two other slots
Absent(k) == IF k \in InitialSlotKeys THEN None ELSE Missing

\* the valid outputs slot k is drawn from
SlotOutputs(k) ==
  << Output(AgentOutputKeys, k, "APPROVE", 3240, <<>>, <<>>),
     Output(AgentOutputKeys, k, "APPROVE", 2880, <<>>, <<>>),
     Output(AgentOutputKeys, k, "APPROVE", 2160, <<>>, <<>>),
     Output(AgentOutputKeys, k, "MODIFY", 1800, <<>>, <<"reduce position">>),
     Output(AgentOutputKeys, k, "REJECT", 3240, <<"illiquid">>, <<>>),
     Output(AgentOutputKeys, k, "APPROVE", 3240, <<"illiquid">>, <<>>),
     Output(AgentOutputKeys, OtherName, "APPROVE", 1800, <<>>, <<>>),
     Output(AgentOutputKeys, OtherName, "MODIFY", 2160, <<>>, <<"hedge">>),
     Output(AgentOutputKeys, OtherName, "APPROVE", 3240, <<"overvalued">>, <<>>),
     Output(AgentOutputKeys, OtherName, "MODIFY", 3240, <<"illiquid">>, <<>>) >>

DrawnSlots(choice) ==
  [k \in SlotKeySet |-> IF choice[k] = 0 THEN Absent(k) ELSE SlotOutputs(k)[choice[k]]]

InitEval ==
  /\ pc = "drawn"
  /\ script = <<>>
  /\ agents = <<>>
  /\ use_ai_decisions = TRUE
  /\ ai_engine = Engine
  /\ engine_load = "not attempted"
  /\ self_max_iterations = MaxIterations
  /\ inputs = None
  /\ \E choice \in [SlotKeySet -> 0..Len(SlotOutputs("risk_qualification"))] :
       /\ Cardinality({k \in SlotKeySet : choice[k] # 0}) <= MaxPresent
       /\ slots = DrawnSlots(choice)
  /\ iteration = 0
  /\ decision = None
  /\ max_iterations = MaxIterations
  /\ debate_history = <<>>
  /\ pending_modifications = Missing
  /\ modification_synthesis = Missing
  /\ NothingObserved

\* (mutant) the evaluator consumes the outputs it has read
StateAfterEvaluateCouncil_Consumed(s) == [k \in SlotKeySet |-> None]

\* the output slots once evaluate_council(state) has returned: the function
\* reads the state with state.get and assigns to no key of it
StateAfterEvaluateCouncil(s) == s

\* result = evaluate_council(state)
ApplyEvaluateCouncil ==
  /\ pc = "drawn"
  /\ result' = evaluate_council(slots)
  /\ slots' = StateAfterEvaluateCouncil(slots)
  /\ service' = None
  /\ pc' = "rules"
  /\ UNCHANGED << script, agents, orchestratorVars, inputs, iteration, decision,
                  max_iterations, debate_history, modificationVars, returns, invoked,
                  lookups >>

\* result = evaluate_council(state) once more, on the state the first call left
ApplyEvaluateCouncilAgain ==
  /\ pc = "rules"
  /\ result' = evaluate_council(slots)
  /\ slots' = StateAfterEvaluateCouncil(slots)
  /\ pc' = "rules twice"
  /\ UNCHANGED << script, agents, orchestratorVars, inputs, iteration, decision,
                  max_iterations, debate_history, modificationVars, returns, invoked,
                  service, lookups >>

\* result = evaluate_with_ai_engine(engine, state, ...), with or without an engine
ApplyEvaluateWithAIEngine ==
  /\ pc = "drawn"
  /\ \E engine \in {None, Engine}, response \in ServiceResponses :
       /\ result' = evaluate_with_ai_engine(engine, slots, response)
       /\ service' = [engine |-> engine,
                      response |-> IF ServiceCalled(engine, slots) THEN response ELSE None,
                      calls |-> ReasonCalls(engine, slots, response)]
  /\ pc' = "service"
  /\ UNCHANGED << script, agents, orchestratorVars, stateVars, returns, invoked, lookups >>

NextEval ==
  \/ ApplyEvaluateCouncil
  \/ ApplyEvaluateCouncilAgain
  \/ ApplyEvaluateWithAIEngine

SpecEval == InitEval /\ [][NextEval]_vars

\* ------------------------------------------------------------------------
\* _validate_agent_output applied to candidate outputs drawn from a bounded set
\* ------------------------------------------------------------------------

\* the key sets of the candidates: every AgentOutput key, or all but one
CandidateKeySets == {AgentOutputKeys} \cup {AgentOutputKeys \ {k} : k \in AgentOutputKeys}

\* a legal verdict or another string
CandidateVerdicts == Verdicts \cup {"HOLD"}

\* -0.1, 0.0, 0.5, 1.0 and 1.1
CandidateConfidences == {0 - 360, 0, 1800, ConfOne, ConfOne + 360}

\* the agent whose callable returns the candidate
Candidate == returns["risk_qualification"].output

InitValidate ==
  /\ pc = "candidate"
  /\ script = <<>>
  /\ agents = << Registration("risk_qualification", "f") >>
  /\ use_ai_decisions = FALSE
  /\ ai_engine = None
  /\ engine_load = "not attempted"
  /\ self_max_iterations = MaxIterations
  /\ NoState
  /\ \E keys \in CandidateKeySets, verdict \in CandidateVerdicts,
        confidence \in CandidateConfidences :
       returns = [n \in {"risk_qualification"} |->
                    Return(Output(keys, n, verdict, confidence, <<>>, <<>>))]
  /\ invoked = <<>>
  /\ service = None
  /\ result = None
  /\ lookups = <<>>

\* result = self._validate_agent_output(output)
ApplyValidateAgentOutput ==
  /\ pc = "candidate"
  /\ result' = [valid |-> _validate_agent_output(Candidate)]
  /\ pc' = "validated"
  /\ UNCHANGED << script, agents, orchestratorVars, stateVars, returns, invoked, service,
                  lookups >>

NextValidate == ApplyValidateAgentOutput

SpecValidate == InitValidate /\ [][NextValidate]_vars

\* ------------------------------------------------------------------------
\* Properties
\* ------------------------------------------------------------------------

\* the slots that hold an output, read off the state directly
\* ------------------------------------------------------------------------
\* The loop of one agent over more passes
\* ------------------------------------------------------------------------

\* the max_iterations of the longer run
LongRunIterations == 3

\* Orchestrator(max_iterations = LongRunIterations, ai_engine, use_ai_decisions),
\* to which the caller registers risk_qualification
InitLongRun ==
  /\ pc = "setup"
  /\ script = << Registration("risk_qualification", "f") >>
  /\ agents = <<>>
  /\ use_ai_decisions \in BOOLEAN
  /\ ai_engine \in {None, Engine}
  /\ engine_load = "not attempted"
  /\ self_max_iterations = LongRunIterations
  /\ NoState
  /\ NothingObserved

SpecLongRun == InitLongRun /\ [][Next]_vars

\* ------------------------------------------------------------------------
\* _prepare_agent_input applied to states that hold some of the declared fields
\* ------------------------------------------------------------------------

InputFields == {"user_profile", "asset_candidate", "market_context", "position"}

\* the agent names the projection is asked for
PreparedNames ==
  {"risk_qualification", "devils_advocate", "personal_suitability", "market_analysis",
   "custom_agent"}

\* what the risk_qualification entry of the state can be: no entry, None, an output
PreparedSlotValues ==
  { Missing, None,
    Output(AgentOutputKeys, "risk_qualification", "APPROVE", 3240, <<>>, <<>>),
    Output(AgentOutputKeys, "risk_qualification", "MODIFY", 1800, <<>>, <<"reduce position">>) }

InitPrepare ==
  /\ pc = "state"
  /\ script = <<>>
  /\ \E name \in PreparedNames : agents = << Registration(name, "f") >>
  /\ use_ai_decisions = FALSE
  /\ ai_engine = None
  /\ engine_load = "not attempted"
  /\ self_max_iterations = 1
  /\ \E held \in SUBSET InputFields : inputs = [field \in held |-> Loaded(field)]
  /\ \E value \in PreparedSlotValues :
       slots = [k \in SlotKeySet |-> IF k = "risk_qualification" THEN value ELSE Missing]
  /\ iteration = 1
  /\ decision = None
  /\ max_iterations = 1
  /\ debate_history = <<>>
  /\ pending_modifications = Missing
  /\ modification_synthesis = Missing
  /\ NothingObserved

\* agent_input = self._prepare_agent_input(state, agent_name)
ApplyPrepareAgentInput ==
  /\ pc = "state"
  /\ invoked' = << Invocation(agents[1], _prepare_agent_input(slots, agents[1].name)) >>
  /\ pc' = "prepared"
  /\ UNCHANGED << script, agents, orchestratorVars, stateVars, returns, service, result,
                  lookups >>

NextPrepare == ApplyPrepareAgentInput

SpecPrepare == InitPrepare /\ [][NextPrepare]_vars

Present == {k \in SlotKeySet : slots[k] # None /\ slots[k] # Missing}
Rejecting == {k \in Present : slots[k].verdict = "REJECT"}
Blocking == {k \in Present : slots[k].blocking_issues # <<>>}

SlotIndex(k) == CHOOSE i \in 1..Len(SlotKeys) : SlotKeys[i] = k

\* of the slots of S whose output reports agent name n, the last in slot order
LastReporting(S, n) ==
  CHOOSE k \in S :
    /\ slots[k].agent_name = n
    /\ \A j \in S : slots[j].agent_name = n => SlotIndex(j) <= SlotIndex(k)

RECURSIVE ConfidenceTotal(_)
ConfidenceTotal(S) ==
  IF S = {} THEN 0
  ELSE LET k == CHOOSE x \in S : TRUE
       IN  slots[k].confidence + ConfidenceTotal(S \ {k})

\* the mean confidence of the present outputs is below 0.75 = 3/4
MeanBelowThreshold == 4 * ConfidenceTotal(Present) < 3 * ConfOne * Cardinality(Present)

UsesService == use_ai_decisions /\ ai_engine # None

\* C1: with max_iterations = N >= 1 and no pass reaching consensus, orchestrate
\* returns at iteration N with decision reason MAX_ITERATIONS and N history
\* entries.  (Under the rules strategy a pass reaches consensus exactly when its
\* history entry records the reason CONSENSUS.)
C1_IterationCap ==
  ( /\ pc = "done"
    /\ ~UsesService
    /\ max_iterations >= 1
    /\ \A i \in 1..Len(debate_history) : debate_history[i].decision # "CONSENSUS" )
  => /\ iteration = max_iterations
     /\ Len(debate_history) = max_iterations
     /\ decision.reason = "MAX_ITERATIONS"

\* C2: the loop returns at the end of a pass if and only if the decision stored
\* by that pass has action TERMINATE or iteration >= max_iterations: it has not
\* gone on to apply_modifications while that holds, and it has not returned
\* while the stored action is REITERATE below the cap.
C2_ExitConditions ==
  /\ pc = "modify" => ~(decision.action = "TERMINATE" \/ iteration >= max_iterations)
  /\ pc = "done" => (decision.action = "TERMINATE" \/ iteration >= max_iterations)

\* C3: every state returned by orchestrate has decision.action = TERMINATE.
C3_ReturnedDecisionTerminates ==
  pc = "done" => decision.action = "TERMINATE"

\* C4: when every output slot is absent, evaluate_council returns
\* REITERATE with reason NO_OUTPUTS.
C4_NoOutputs ==
  (pc = "rules" /\ Present = {})
  => result.action = "REITERATE" /\ result.reason = "NO_OUTPUTS"

C4_Witness == pc = "rules" /\ Present = {} /\ result.reason = "NO_OUTPUTS"

\* C5: when at least one present output has verdict REJECT, evaluate_council
\* returns REITERATE with reason REJECT whatever the issues and confidences
\* are, and rejecting_agents names exactly the outputs whose verdict is REJECT,
\* one entry for each.
C5_Reject ==
  (pc = "rules" /\ Rejecting # {})
  => /\ result.action = "REITERATE"
     /\ result.reason = "REJECT"
     /\ LET listed == result.details.rejecting_agents IN
        /\ {listed[i] : i \in 1..Len(listed)} = {slots[k].agent_name : k \in Rejecting}
        /\ Len(listed) = Cardinality(Rejecting)

\* one REJECT beside two APPROVE outputs at confidence 0.9
C5_Witness ==
  /\ pc = "rules"
  /\ Cardinality(Rejecting) = 1
  /\ Cardinality({k \in Present : slots[k].verdict = "APPROVE"
                                   /\ slots[k].confidence = 3240}) = 2
  /\ result.reason = "REJECT"

RulesReachBlocking == pc = "rules" /\ Present # {} /\ Rejecting = {} /\ Blocking # {}

\* C6: with outputs present, no REJECT and some non-empty
\* blocking_issues list, evaluate_council returns REITERATE with reason
\* BLOCKING_ISSUES and details maps each agent that has a non-empty list, and
\* only those, to its issues.
C6_BlockingIssues ==
  RulesReachBlocking
  => /\ result.action = "REITERATE"
     /\ result.reason = "BLOCKING_ISSUES"
     /\ LET d == result.details.blocking_agents IN
        /\ DOMAIN d = {slots[k].agent_name : k \in Blocking}
        /\ \A k \in Blocking : d[slots[k].agent_name] = slots[k].blocking_issues

\* what evaluate_council computes in that case: details maps each agent_name
\* reported by an output with a non-empty blocking_issues list, and no other
\* name, to the issues of the last such output in slot order (to that agent's
\* own issues when the reported names are pairwise distinct).
BlockingIssues_ByReportedName ==
  RulesReachBlocking
  => /\ result.action = "REITERATE"
     /\ result.reason = "BLOCKING_ISSUES"
     /\ LET d == result.details.blocking_agents IN
        /\ DOMAIN d = {slots[k].agent_name : k \in Blocking}
        /\ \A n \in DOMAIN d : d[n] = slots[LastReporting(Blocking, n)].blocking_issues

\* two outputs with blocking issues, one of them at confidence 0.9, and a third
\* output without
C6_Witness ==
  /\ RulesReachBlocking
  /\ Cardinality(Blocking) = 2
  /\ Cardinality(Present) = 3
  /\ result.reason = "BLOCKING_ISSUES"

RulesReachConfidence == pc = "rules" /\ Present # {} /\ Rejecting = {} /\ Blocking = {}

\* C7: with outputs present, no REJECT, no blocking issues and mean
\* confidence below 0.75, evaluate_council returns REITERATE with reason
\* LOW_CONFIDENCE, and details carries the mean over exactly the present
\* outputs, the threshold 0.75 and each present agent's confidence.
C7_LowConfidence ==
  (RulesReachConfidence /\ MeanBelowThreshold)
  => /\ result.action = "REITERATE"
     /\ result.reason = "LOW_CONFIDENCE"
     /\ result.details.average_confidence * Cardinality(Present) = ConfidenceTotal(Present)
     /\ 4 * result.details.threshold = 3 * ConfOne
     /\ LET d == result.details.agent_confidences IN
        /\ DOMAIN d = {slots[k].agent_name : k \in Present}
        /\ \A k \in Present : d[slots[k].agent_name] = slots[k].confidence

\* what evaluate_council computes in that case: the same action, reason, mean
\* and threshold and, for each agent_name reported by a present output, the
\* confidence of the last present output in slot order that reports it (each
\* present agent's confidence when the reported names are pairwise distinct).
LowConfidence_ByReportedName ==
  (RulesReachConfidence /\ MeanBelowThreshold)
  => /\ result.action = "REITERATE"
     /\ result.reason = "LOW_CONFIDENCE"
     /\ result.details.average_confidence * Cardinality(Present) = ConfidenceTotal(Present)
     /\ 4 * result.details.threshold = 3 * ConfOne
     /\ LET d == result.details.agent_confidences IN
        /\ DOMAIN d = {slots[k].agent_name : k \in Present}
        /\ \A n \in DOMAIN d : d[n] = slots[LastReporting(Present, n)].confidence

\* two agents report 0.9 and 0.5 while a third slot of the state is absent
C7_Witness ==
  /\ RulesReachConfidence
  /\ Cardinality(Present) = 2
  /\ {slots[k].confidence : k \in Present} = {3240, 1800}
  /\ result.reason = "LOW_CONFIDENCE"
  /\ result.details.average_confidence = 2520

\* C8: with outputs present, no REJECT, no blocking issues and mean confidence
\* at least 0.75, evaluate_council returns TERMINATE with reason CONSENSUS and
\* agent_count equal to the number of present outputs; MODIFY verdicts do not
\* prevent it.
C8_Consensus ==
  (RulesReachConfidence /\ ~MeanBelowThreshold)
  => /\ result.action = "TERMINATE"
     /\ result.reason = "CONSENSUS"
     /\ result.details.agent_count = Cardinality(Present)

\* the mean is exactly 0.75 (0.9 and 0.6)
C8_Witness ==
  /\ RulesReachConfidence
  /\ 4 * ConfidenceTotal(Present) = 3 * ConfOne * Cardinality(Present)
  /\ result.reason = "CONSENSUS"

\* evaluate_with_ai_engine has called the service with at least one output present
ServiceAnswered ==
  /\ pc = "service"
  /\ Present # {}
  /\ service.engine = Engine
  /\ service.response # None

\* the call raised, or returned no mapping, or a mapping whose action is no string
ResponseUnusable(r) ==
  \/ r.kind = "raise"
  \/ r.kind = "not_a_mapping"
  \/ r.kind = "mapping" /\ r.action = NotAString

\* a mapping without an action, or with one that is neither REITERATE nor
\* TERMINATE in any letter case
ActionMissingOrIllegal(r) ==
  /\ r.kind = "mapping"
  /\ \/ r.action = Missing
     \/ r.action.tag = "Str" /\ Upper(r.action.chars) \notin {REITERATE, TERMINATE}

CallAgentsStep == pc = "call" /\ pc' # "call"

\* C10: when an agent's invocation raises in call_agents, that agent's slot is
\* left as it was, every registered agent is still invoked once in that pass,
\* the valid output of every other registered agent is stored in the state,
\* and the pass goes on to the evaluation.
C10_FailureIsolation ==
  [][ (CallAgentsStep /\ \E n \in RegisteredNames(agents) : returns'[n].kind = "raise")
      => /\ pc' = "evaluate"
         /\ \A n \in RegisteredNames(agents) :
              /\ Cardinality({i \in 1..Len(invoked') : invoked'[i].name = n}) = 1
              /\ (returns'[n].kind = "raise" /\ n \in SlotKeySet)
                 => slots'[n] = slots[n]
              /\ ( /\ returns'[n].kind = "return"
                   /\ _validate_agent_output(returns'[n].output) )
                 => \E k \in SlotKeySet : slots'[k] = returns'[n].output
    ]_vars

\* what call_agents does in that case: the same, with the valid output stored
\* for the agents named in state_key_map only (another name has no slot, and
\* its output is dropped)
FailureIsolation_StateKeyMap ==
  [][ (CallAgentsStep /\ \E n \in RegisteredNames(agents) : returns'[n].kind = "raise")
      => /\ pc' = "evaluate"
         /\ \A n \in RegisteredNames(agents) :
              /\ Cardinality({i \in 1..Len(invoked') : invoked'[i].name = n}) = 1
              /\ (returns'[n].kind = "raise" /\ n \in SlotKeySet)
                 => slots'[n] = slots[n]
              /\ ( /\ returns'[n].kind = "return"
                   /\ _validate_agent_output(returns'[n].output)
                   /\ n \in SlotKeySet )
                 => slots'[n] = returns'[n].output
    ]_vars

\* one agent raises while its slot holds the output of an earlier pass, and
\* the agent registered after it has its valid output of this pass stored
C10_Witness ==
  /\ pc = "evaluate"
  /\ Len(invoked) = 2
  /\ returns[invoked[1].name].kind = "raise"
  /\ invoked[1].name \in Present
  /\ returns[invoked[2].name].kind = "return"
  /\ invoked[2].name \in SlotKeySet
  /\ slots[invoked[2].name] = returns[invoked[2].name].output

\* C11: when an agent returns an output that fails validation, the output is
\* written to no slot, the agent's slot keeps the value it had before the pass,
\* every registered agent is still invoked once and the pass goes on to the
\* evaluation.
C11_InvalidOutputDiscarded ==
  [][ CallAgentsStep
      => \A n \in RegisteredNames(agents) :
           ( /\ returns'[n].kind = "return"
             /\ ~_validate_agent_output(returns'[n].output) )
           => /\ pc' = "evaluate"
              /\ \A k \in SlotKeySet : slots'[k] # returns'[n].output
              /\ n \in SlotKeySet => slots'[n] = slots[n]
              /\ \A m \in RegisteredNames(agents) :
                   Cardinality({i \in 1..Len(invoked') : invoked'[i].name = m}) = 1
    ]_vars

\* the first agent returns an invalid output while its slot holds the valid
\* output of an earlier pass, and the agent after it has its output stored
C11_Witness ==
  /\ pc = "evaluate"
  /\ Len(invoked) = 2
  /\ returns[invoked[1].name].kind = "return"
  /\ ~_validate_agent_output(returns[invoked[1].name].output)
  /\ invoked[1].name \in Present
  /\ _validate_agent_output(slots[invoked[1].name])
  /\ returns[invoked[2].name].kind = "return"
  /\ invoked[2].name \in SlotKeySet
  /\ slots[invoked[2].name] = returns[invoked[2].name].output

\* C12: _validate_agent_output fails a candidate exactly when one of the eight
\* AgentOutput keys (reasoning among them) is absent, or the verdict is none of
\* APPROVE/MODIFY/REJECT, or the confidence is outside [0, 1]; it passes every
\* other candidate, confidence 0.0 and 1.0 included.
C12_ValidatorContract ==
  pc = "validated"
  => ( ~result.valid
       <=> \/ ~(AgentOutputKeys \subseteq Candidate.keys)
           \/ Candidate.verdict \notin Verdicts
           \/ Candidate.confidence < 0
           \/ Candidate.confidence > ConfOne )

\* what _validate_agent_output computes: the same with the keys of
\* required_keys, to which reasoning does not belong
ValidatorContract_RequiredKeys ==
  pc = "validated"
  => ( ~result.valid
       <=> \/ ~(required_keys \subseteq Candidate.keys)
           \/ Candidate.verdict \notin Verdicts
           \/ Candidate.confidence < 0
           \/ Candidate.confidence > ConfOne )

\* the agents a slot's output can come from, other than the agent `name`
OutputOfAnother(name, field, value) ==
  field \in SlotKeySet /\ field # name /\ value # None

\* C13: in every pass, the input handed to a registered agent B contains no
\* output of another registered agent A, of the same pass or of an earlier one.
C13_NoOutputInInput ==
  pc = "evaluate"
  => \A i \in 1..Len(invoked) :
       \A field \in DOMAIN invoked[i].input :
         ~OutputOfAnother(invoked[i].name, field, invoked[i].input[field])

\* C13 as amended: the input handed to an agent other than devils_advocate has
\* no output slot among its fields; the input handed to devils_advocate has the
\* risk_qualification slot and no other, with the value the slot holds when
\* devils_advocate is called: the output of this pass when risk_qualification
\* was invoked before it, else what the slot held before the pass.
C13_OnlyDevilsAdvocateSeesRiskQualification ==
  [][ CallAgentsStep
      => \A i \in 1..Len(invoked') :
           LET call == invoked'[i] IN
           IF call.name = "devils_advocate"
           THEN /\ DOMAIN call.input \cap SlotKeySet = {"risk_qualification"}
                /\ call.input["risk_qualification"] =
                     IF \E j \in 1..(i-1) : invoked'[j].name = "risk_qualification"
                     THEN slots'["risk_qualification"]
                     ELSE slots["risk_qualification"]
           ELSE DOMAIN call.input \cap SlotKeySet = {}
    ]_vars

\* devils_advocate is called with the output risk_qualification returned
\* earlier in the same pass
C13_Witness ==
  /\ pc = "evaluate"
  /\ Len(invoked) = 2
  /\ invoked[1].name = "risk_qualification"
  /\ invoked[2].name = "devils_advocate"
  /\ returns["risk_qualification"].kind = "return"
  /\ invoked[2].input["risk_qualification"] = returns["risk_qualification"].output

\* max(1, max_iterations)
PassLimit == IF max_iterations >= 1 THEN max_iterations ELSE 1

\* C14: once initialize_state has succeeded, orchestrate eventually returns a
\* state, whatever the agents and the service do, after at most
\* max(1, max_iterations) passes.
C14_EventuallyReturns ==
  /\ (pc = "increment") ~> (pc = "done")
  /\ [](pc \notin {"setup", "failed"} => iteration <= PassLimit)

\* what orchestrate does: it returns or raises within that number of passes
EventuallyReturnsOrRaises ==
  /\ (pc = "increment") ~> (pc \in {"done", "raised"})
  /\ [](pc \notin {"setup", "failed"} => iteration <= PassLimit)

LookupFailed == \E i \in 1..Len(lookups) : lookups[i].outcome = "raise"

\* C15: when one of the three lookups fails, initialize_state raises: no
\* CouncilState exists, no agent is invoked, no step of the loop follows, and
\* the failed lookup was made once and was the last call to the data provider.
C15_LookupFailureIsFatal ==
  LookupFailed
  => /\ pc = "failed"
     /\ NoState
     /\ invoked = <<>> /\ returns = <<>>
     /\ ~ENABLED Next
     /\ lookups[Len(lookups)].outcome = "raise"
     /\ \A i, j \in 1..Len(lookups) : lookups[i].lookup = lookups[j].lookup => i = j

\* the asset lookup fails after the user profile was found, with agents registered
C15_Witness ==
  /\ pc = "failed"
  /\ agents # <<>>
  /\ Len(lookups) = 2
  /\ lookups[1].outcome = "return"
  /\ lookups[2] = [lookup |-> "get_asset_candidate", outcome |-> "raise"]

RequestSent == service # None /\ service.response # None

\* C17: evaluate_and_decide sends a request to the service only if
\* use_ai_decisions is true and an engine was obtained; in every other
\* configuration the stored decision is evaluate_council(state) and no request
\* is sent.
C17_StrategySelection ==
  /\ RequestSent => (use_ai_decisions /\ ai_engine # None)
  /\ (pc = "record" /\ ~(use_ai_decisions /\ ai_engine # None))
     => (decision = evaluate_council(slots) /\ ~RequestSent)

\* the flag is false, an engine was supplied, and a pass over present outputs
\* has stored the rules decision
C17_Witness ==
  /\ pc = "record"
  /\ ~use_ai_decisions
  /\ ai_engine = Engine
  /\ Present # {}
  /\ decision = evaluate_council(slots)
  /\ ~RequestSent

RecommendationStep == pc = "done" /\ pc' = "recommended"

\* C19: get_final_recommendation leaves the state unchanged and returns the
\* reason of the decision, consensus exactly when the action is TERMINATE, the
\* iteration counter, the verdict held in the slot of each agent the state
\* tracks (nothing for an agent whose slot is empty), the arithmetic mean of the
\* confidences of the slots that hold an output (0 when none does) and the
\* whole debate_history
C19_FinalRecommendation ==
  [][RecommendationStep =>
       /\ stateVars' = stateVars
       /\ result'.recommendation = decision.reason
       /\ result'.consensus = (decision.action = "TERMINATE")
       /\ result'.iterations = iteration
       /\ \A k \in SlotKeySet :
            IF k \in Present
              THEN /\ k \in DOMAIN result'.agent_verdicts
                   /\ result'.agent_verdicts[k] = slots[k].verdict
              ELSE \/ k \notin DOMAIN result'.agent_verdicts
                   \/ result'.agent_verdicts[k] = "None"
       /\ IF Present = {}
            THEN result'.average_confidence = 0
            ELSE result'.average_confidence * Cardinality(Present) = ConfidenceTotal(Present)
       /\ result'.debate_history = debate_history]_vars

\* what the code returns: the same, with the verdicts of risk_qualification,
\* devils_advocate and personal_suitability only
FinalRecommendation_ThreeVerdicts ==
  [][RecommendationStep =>
       /\ stateVars' = stateVars
       /\ result'.recommendation = decision.reason
       /\ result'.consensus = (decision.action = "TERMINATE")
       /\ result'.iterations = iteration
       /\ DOMAIN result'.agent_verdicts = ReportedVerdictKeys
       /\ \A k \in ReportedVerdictKeys :
            result'.agent_verdicts[k] = IF k \in Present THEN slots[k].verdict ELSE "None"
       /\ IF Present = {}
            THEN result'.average_confidence = 0
            ELSE result'.average_confidence * Cardinality(Present) = ConfidenceTotal(Present)
       /\ result'.debate_history = debate_history]_vars

\* a recommendation on a state whose market_analysis slot holds an output
RecommendationOmitsVerdict ==
  /\ pc = "recommended"
  /\ "market_analysis" \in Present
  /\ "market_analysis" \notin DOMAIN result.agent_verdicts

\* ---- C20 ----
\* the positions of orchestrate after the history record of the pass is appended
PassRecorded == pc \in {"check", "modify", "limit", "increment", "done", "recommended"}

\* the positions of a pass before its history record is appended
PassUnderway == pc \in {"call", "evaluate", "record", "raised"}

\* C20: state.iteration is 0 after initialize_state, is incremented by exactly
\* 1 by the first step of each loop pass and changed by no other step
\* (call_agents, evaluate_and_decide, the history record, the stop check,
\* apply_modifications, the limit check, get_final_recommendation), so it never
\* decreases; after k passes, counted by the history records, iteration = k
C20_IterationCounter ==
  /\ [][(pc = "setup" /\ pc' = "increment") => iteration' = 0]_vars
  /\ [][IF pc = "increment" /\ pc' = "call"
          THEN iteration' = iteration + 1
          ELSE iteration' = iteration]_vars
  /\ [][iteration' >= iteration]_vars
  /\ [](PassRecorded => iteration = Len(debate_history))
  /\ [](PassUnderway => iteration = Len(debate_history) + 1)

\* orchestrate has returned after two passes
C20_Witness ==
  /\ pc = "done"
  /\ Len(debate_history) = 2
  /\ iteration = 2

\* ---- C21 ----
\* C21: at every stop check and at return from orchestrate the length of
\* debate_history equals state.iteration, and debate_history is append-only:
\* after every step the history before the step is a prefix of the history
\* after it, whatever the step does to the slots and to the decision
C21_HistoryAppendOnly ==
  /\ [](pc \in {"check", "done"} => Len(debate_history) = iteration)
  /\ [][/\ Len(debate_history') >= Len(debate_history)
        /\ \A i \in 1..Len(debate_history) : debate_history'[i] = debate_history[i]]_vars

\* orchestrate has returned after two passes, the second of which overwrote a
\* slot with another verdict and the decision with another reason
C21_Witness ==
  /\ pc = "done"
  /\ Len(debate_history) = 2
  /\ debate_history[1].iteration = 1
  /\ \E k \in Present : debate_history[1].verdicts[k] \notin {"None", slots[k].verdict}
  /\ debate_history[1].decision # decision.reason

\* ---- C22 ----
\* C22: after initialize_state no step of the orchestrator changes
\* user_profile, asset_candidate, market_context, position or max_iterations,
\* and in the returned state they have the values initialize_state gave them
C22_InputsImmutable ==
  /\ [][pc # "setup" => (inputs' = inputs /\ max_iterations' = max_iterations)]_vars
  /\ [](pc = "done" => (inputs = LoadedInputs /\ max_iterations = self_max_iterations))

\* a pass in which an agent registered under the name of a run input has
\* returned a valid output
C22_Witness ==
  /\ pc = "evaluate"
  /\ "user_profile" \in DOMAIN returns
  /\ returns["user_profile"].kind = "return"
  /\ _validate_agent_output(returns["user_profile"].output)
  /\ iteration = 2

\* ---- C23 ----
\* a registered agent returned a valid output in the pass call_agents has run
ReturnedValid(rets, n) ==
  rets[n].kind = "return" /\ _validate_agent_output(rets[n].output)

\* C23: for every name that can be registered, built-in or not, when the agent
\* returns a valid output in a pass, the state after call_agents holds exactly
\* that output in the agent's own slot, in place of any earlier output, and the
\* output is among those the evaluator reads in that pass
C23_EveryRegisteredNameStored ==
  [][CallAgentsStep
     => \A n \in RegisteredNames(agents) :
          ReturnedValid(returns', n)
          => /\ \E k \in SlotKeySet \ (RegisteredNames(agents) \ {n}) :
                  slots'[k] = returns'[n].output
             /\ \E i \in 1..Len(PresentOutputs(slots')) :
                  PresentOutputs(slots')[i] = returns'[n].output]_vars

\* what the code does: the same for the five names of state_key_map, whose slot
\* is the state key of that name
MappedNameStored ==
  [][CallAgentsStep
     => \A n \in RegisteredNames(agents) \cap DOMAIN state_key_map :
          ReturnedValid(returns', n)
          => /\ slots'[state_key_map[n]] = returns'[n].output
             /\ \E i \in 1..Len(PresentOutputs(slots')) :
                  PresentOutputs(slots')[i] = returns'[n].output]_vars

\* an agent registered under another name returned a valid output, and after
\* call_agents no slot holds an output
UnmappedNameDropped ==
  /\ pc = "evaluate"
  /\ \E n \in RegisteredNames(agents) \ DOMAIN state_key_map : ReturnedValid(returns, n)
  /\ PresentOutputs(slots) = <<>>

\* ---- C24 ----
\* the two spellings of a letter of REITERATE and TERMINATE
CaseVariants(c) ==
  CASE c = "R" -> {"R", "r"} [] c = "E" -> {"E", "e"} [] c = "I" -> {"I", "i"}
    [] c = "T" -> {"T", "t"} [] c = "A" -> {"A", "a"} [] c = "M" -> {"M", "m"}
    [] c = "N" -> {"N", "n"}

\* `action` is a string that spells `word` in some mix of letter cases
Spells(action, word) ==
  /\ action.tag = "Str"
  /\ Len(action.chars) = Len(word)
  /\ \A i \in 1..Len(word) : action.chars[i] \in CaseVariants(word[i])

\* the service was called and returned a mapping
MappingReturned == ServiceAnswered /\ service.response.kind = "mapping"

\* C24: when the service returns a mapping, a legal action in any letter case
\* yields that action, a missing or illegal action (no string, or a string
\* that spells neither word) yields REITERATE, and the action of the result is
\* always REITERATE or TERMINATE
C24_ActionNormalised_AsStated ==
  /\ (MappingReturned /\ Spells(service.response.action, TERMINATE))
     => result.action = "TERMINATE"
  /\ (MappingReturned /\ Spells(service.response.action, REITERATE))
     => result.action = "REITERATE"
  /\ (MappingReturned /\ ~Spells(service.response.action, TERMINATE)
                      /\ ~Spells(service.response.action, REITERATE))
     => result.action = "REITERATE"
  /\ pc = "service" => result.action \in {"REITERATE", "TERMINATE"}

\* C24 as amended: a legal action in any letter case yields that action, a
\* missing action or a string that spells neither word yields REITERATE, an
\* action that is no string yields the result of evaluate_council on the same
\* state, and the action of the result is always REITERATE or TERMINATE
C24_ActionNormalised ==
  /\ (MappingReturned /\ Spells(service.response.action, TERMINATE))
     => result.action = "TERMINATE"
  /\ (MappingReturned /\ Spells(service.response.action, REITERATE))
     => result.action = "REITERATE"
  /\ (MappingReturned /\ service.response.action.tag \in {"Missing", "Str"}
                      /\ ~Spells(service.response.action, TERMINATE)
                      /\ ~Spells(service.response.action, REITERATE))
     => result.action = "REITERATE"
  /\ (MappingReturned /\ service.response.action = NotAString)
     => result = evaluate_council(slots)
  /\ pc = "service" => result.action \in {"REITERATE", "TERMINATE"}

\* the service answered "terminate" in lower case on a state on which the
\* rules would reiterate, and the result has action TERMINATE
C24_Witness ==
  /\ MappingReturned
  /\ Spells(service.response.action, TERMINATE)
  /\ service.response.action.chars # TERMINATE
  /\ evaluate_council(slots).action = "REITERATE"
  /\ result.action = "TERMINATE"

\* ---- C25 ----
\* C25: when no agent output is present, evaluate_with_ai_engine returns
\* REITERATE with reason NO_OUTPUTS, the same result as evaluate_council on
\* that state, and does not call the reasoning service
C25_NoOutputsNoRequest ==
  (pc = "service" /\ Present = {})
  => /\ result.action = "REITERATE"
     /\ result.reason = "NO_OUTPUTS"
     /\ result = evaluate_council(slots)
     /\ service.response = None

\* evaluate_with_ai_engine has returned for an engine and a state without outputs
C25_Witness ==
  /\ pc = "service"
  /\ Present = {}
  /\ service.engine = Engine
  /\ result.reason = "NO_OUTPUTS"

\* ---- C26 ----
\* the field list declared for an agent name (none for a name without a list)
Declared(name) ==
  IF name \in DOMAIN agent_inputs
  THEN {agent_inputs[name][i] : i \in 1..Len(agent_inputs[name])}
  ELSE {}

\* the state has an entry for the field, whatever its value
HasEntry(field) ==
  IF field \in SlotKeySet THEN slots[field] # Missing ELSE field \in DOMAIN inputs

EntryOf(field) == IF field \in SlotKeySet THEN slots[field] ELSE inputs[field]

OrchestratorMetadata == {"iteration", "decision", "max_iterations", "debate_history"}

\* C26: the mapping _prepare_agent_input returns has only keys of the agent's
\* declared field list, with the values the state holds for them; a declared
\* field the state does not hold, because it has no entry or because it is an
\* output slot that is still empty, is left out; no orchestrator metadata is in it
C26_Projection_AsStated ==
  pc = "prepared"
  => LET call == invoked[1] IN
     /\ DOMAIN call.input \subseteq Declared(call.name)
     /\ \A field \in DOMAIN call.input : call.input[field] = EntryOf(field)
     /\ \A field \in Declared(call.name) :
          (~HasEntry(field) \/ EntryOf(field) = None) => field \notin DOMAIN call.input
     /\ DOMAIN call.input \cap OrchestratorMetadata = {}

\* C26 as amended: the keys of the mapping are exactly the declared fields for
\* which the state has an entry, with the values the state holds for them; an
\* output slot that is still empty has an entry and is passed with the value
\* None; no orchestrator metadata is in the mapping
C26_Projection ==
  pc = "prepared"
  => LET call == invoked[1] IN
     /\ DOMAIN call.input = {field \in Declared(call.name) : HasEntry(field)}
     /\ \A field \in DOMAIN call.input : call.input[field] = EntryOf(field)
     /\ DOMAIN call.input \cap OrchestratorMetadata = {}

\* devils_advocate is handed the risk_qualification slot that is still None,
\* from a state that has no market_context
C26_Witness ==
  /\ pc = "prepared"
  /\ invoked[1].name = "devils_advocate"
  /\ "market_context" \notin DOMAIN inputs
  /\ DOMAIN invoked[1].input = {"asset_candidate", "risk_qualification"}
  /\ invoked[1].input["risk_qualification"] = None

\* ---- C27 ----
\* apply_modifications has just returned
ApplyModificationsStep == pc = "modify" /\ pc' = "limit"

\* C27: apply_modifications changes neither state.decision nor state.iteration
\* nor state.debate_history nor any output slot, with or without a reasoning
\* service and whether the synthesis call returns or raises; the only entries
\* it writes are modification_synthesis and pending_modifications
C27_ModificationsFrame ==
  [][ApplyModificationsStep
     => /\ decision' = decision
        /\ iteration' = iteration
        /\ debate_history' = debate_history
        /\ slots' = slots
        /\ inputs' = inputs
        /\ max_iterations' = max_iterations]_vars

\* apply_modifications has stored the error of a synthesis call that raised
C27_Witness ==
  /\ pc = "limit"
  /\ service # None
  /\ service.synthesis.kind = "raise"
  /\ modification_synthesis # Missing
  /\ decision.action = "REITERATE"

\* ---- C28 ----
\* the agent returned, in the pass under way, a valid output with verdict MODIFY
ReturnedModify(rets, n) ==
  /\ n \in DOMAIN rets
  /\ ReturnedValid(rets, n)
  /\ rets[n].output.verdict = "MODIFY"

\* C28: in pass k apply_modifications collects recommendations only from
\* agents whose output produced in pass k has verdict MODIFY; an agent that
\* raised or returned an invalid output in pass k contributes nothing, whatever
\* the verdict of the output it produced in an earlier pass
C28_CurrentPassModifyOnly ==
  [][ApplyModificationsStep
     => \A i \in 1..Len(result'.modify_agents) :
          /\ ReturnedModify(returns, result'.modify_agents[i].agent)
          /\ result'.modify_agents[i].recommendations =
               returns[result'.modify_agents[i].agent].output.recommendations]_vars

\* what the code does: it collects from every slot that holds an output with
\* verdict MODIFY, in slot order, whichever pass stored it
ModifyCollectedFromSlots ==
  [][ApplyModificationsStep
     => /\ Len(result'.modify_agents) =
             Cardinality({k \in Present : slots[k].verdict = "MODIFY"})
        /\ \A i \in 1..Len(result'.modify_agents) :
             \E k \in Present :
               /\ slots[k].verdict = "MODIFY"
               /\ result'.modify_agents[i] =
                    [agent |-> slots[k].agent_name,
                     recommendations |-> slots[k].recommendations]]_vars

\* apply_modifications is about to run in a pass in which the agent raised,
\* on a slot that holds the MODIFY output of the pass before
StaleModifyInSlot ==
  /\ pc = "modify"
  /\ iteration = 2
  /\ returns["risk_qualification"].kind = "raise"
  /\ "risk_qualification" \in Present
  /\ slots["risk_qualification"].verdict = "MODIFY"

\* ---- C29 ----
\* the synthesis call apply_modifications made has raised
SynthesisRaised(svc) == svc # None /\ svc.synthesis.kind = "raise"

\* C29: when a reasoning service is configured and its synthesis call raises
\* during apply_modifications, the error is stored in the state as the
\* synthesis result, apply_modifications returns to the loop, and orchestrate
\* goes on to the next pass, with the decision and the slots unchanged
C29_SynthesisFailureStored ==
  /\ [][(ApplyModificationsStep /\ SynthesisRaised(service'))
        => /\ ai_engine # None
           /\ modification_synthesis' = Some([error |-> "service error"])
           /\ decision' = decision
           /\ slots' = slots]_vars
  /\ [][(pc = "limit" /\ SynthesisRaised(service))
        => /\ pc' = "increment"
           /\ decision' = decision
           /\ slots' = slots]_vars

\* the next pass is about to start after a synthesis call that raised
C29_Witness ==
  /\ pc = "call"
  /\ iteration = 2
  /\ SynthesisRaised(service)
  /\ modification_synthesis = Some([error |-> "service error"])

\* ---- C30 ----
\* C30: apply_modifications runs in a pass if and only if the pass does not
\* stop the loop.  It is entered only from the stop check of a pass whose
\* history record is appended, and it is followed by the limit check and the
\* next pass; orchestrate returns straight from the stop check, so in the pass
\* after which it returns apply_modifications has not run and no synthesis
\* request was sent; a next pass starts only after apply_modifications has run,
\* once, in the pass before.
C30_SynthesizerOnlyWhenContinuing ==
  /\ [][(pc' = "modify" /\ pc # "modify") => pc = "check"]_vars
  /\ [][pc = "modify" => pc' = "limit"]_vars
  /\ [][pc = "limit" => pc' = "increment"]_vars
  /\ [][(pc' = "done" /\ pc # "done") => pc = "check"]_vars
  /\ [][(pc' = "increment" /\ pc # "setup") => pc = "limit"]_vars
  /\ [](pc = "modify" => Len(debate_history) = iteration)
  /\ [](pc = "done" => service = None)

\* orchestrate has returned from its second pass, after a first pass in which
\* the synthesis ran
C30_Witness ==
  /\ pc = "done"
  /\ iteration = 2
  /\ modification_synthesis # Missing
  /\ service = None

\* ---- C31 ----
\* the names of a registry or of a sequence of invocations, in order
NamesInOrder(seq) == [i \in 1..Len(seq) |-> seq[i].name]

\* no name occurs twice in the sequence
DistinctNames(seq) ==
  \A i, j \in 1..Len(seq) : seq[i].name = seq[j].name => i = j

\* C31: after any sequence of register_agent calls every registered name is in
\* the registry once, with the callable registered last under it, and a name
\* registered again keeps its place; in every pass call_agents invokes each
\* registered name exactly once, with the callable the registry holds, in the
\* order of the registry, which no step of the run changes
C31_RegistryAndInvocationOrder ==
  /\ [](DistinctNames(agents))
  /\ [][(pc = "setup" /\ script # <<>>)
        => /\ \E i \in 1..Len(agents') : agents'[i] = Head(script)
           /\ \A i \in 1..Len(agents) :
                /\ agents'[i].name = agents[i].name
                /\ agents[i].name # Head(script).name => agents'[i] = agents[i]]_vars
  /\ [][pc # "setup" => agents' = agents]_vars
  /\ [][CallAgentsStep
        => /\ Len(invoked') = Len(agents)
           /\ \A i \in 1..Len(agents) :
                /\ invoked'[i].name = agents[i].name
                /\ invoked'[i].callable = agents[i].callable]_vars

\* the second pass has invoked, first, the callable registered last under a
\* name that was registered twice, and then the agent registered between the two
C31_Witness ==
  /\ pc = "evaluate"
  /\ iteration = 2
  /\ NamesInOrder(invoked) = << "risk_qualification", "devils_advocate" >>
  /\ invoked[1].callable = "h"

\* ---- C32 ----
\* C32: in each pass the evaluation step sends at most one request to the
\* reasoning service; a request that raises is not sent again, and the pass
\* stores the rules result; each of the three lookups of initialize_state is
\* attempted at most once
C32_NoRetry ==
  /\ (pc = "record" /\ service # None)
     => /\ Len(service.calls) <= 1
        /\ (service.calls # <<>> /\ service.calls[1].kind = "raise")
           => decision = evaluate_council(slots)
  /\ Len(lookups) <= Len(DataLookups)
  /\ \A i, j \in 1..Len(lookups) : lookups[i].lookup = lookups[j].lookup => i = j

\* the one request of the pass raised, and the decision stored is the rules result
C32_Witness ==
  /\ pc = "record"
  /\ service # None
  /\ Len(service.calls) = 1
  /\ service.calls[1].kind = "raise"
  /\ decision.reason = "CONSENSUS"
  /\ Len(lookups) = 3

\* ---- C33 ----
\* the position of orchestrate changes from `from` to `to`, or not to `to`
Follows(from, to) == (pc' = to /\ pc # to) => pc = from

\* C33: each pass increments the iteration, invokes the agents, evaluates and
\* stores state.decision, appends the history record and checks the stop
\* condition, in this order; the k-th history record has iteration k, the
\* verdict each slot holds after the invocations of pass k ("None" for a slot
\* without output) and the reason of the decision stored in pass k
C33_PassOrderAndRecord ==
  /\ [][/\ Follows("increment", "call")
        /\ Follows("call", "evaluate")
        /\ Follows("evaluate", "record")
        /\ Follows("record", "check")]_vars
  /\ [][(pc = "evaluate" \/ pc = "record") => slots' = slots]_vars
  /\ [][pc = "record" => decision' = decision]_vars
  /\ [][(pc = "record" /\ pc' = "check")
        => /\ Len(debate_history') = Len(debate_history) + 1
           /\ LET record == debate_history'[Len(debate_history')] IN
              /\ record.iteration = iteration
              /\ DOMAIN record.verdicts = SlotKeySet
              /\ \A k \in SlotKeySet :
                   record.verdicts[k] = IF k \in Present THEN slots[k].verdict ELSE "None"
              /\ record.decision = decision.reason]_vars
  /\ [](\A k \in 1..Len(debate_history) : debate_history[k].iteration = k)

\* the record of the second pass is appended: market_analysis approved, the
\* rules reached consensus, and the first pass had ended otherwise
C33_Witness ==
  /\ pc = "check"
  /\ Len(debate_history) = 2
  /\ debate_history[2].verdicts["market_analysis"] = "APPROVE"
  /\ debate_history[2].decision = "CONSENSUS"
  /\ debate_history[1].decision # "CONSENSUS"

C35_RulesDecisionGovernsStop ==
  ~UsesService
  => /\ pc = "check" => decision = evaluate_council(slots)
     /\ (pc = "done" /\ iteration < max_iterations)
        => (decision.action = "TERMINATE" /\ decision.reason = "CONSENSUS")
     /\ (pc = "done" /\ decision.reason = "CONSENSUS")
        => /\ Present # {}
           /\ Rejecting = {}
           /\ Blocking = {}
           /\ ~MeanBelowThreshold

\* orchestrate has returned below the cap under the rules strategy
C35_Witness ==
  /\ pc = "done"
  /\ ~UsesService
  /\ iteration < max_iterations
  /\ decision.reason = "CONSENSUS"

\* ---- C36 ----
\* C36: orchestrate executes one full pass before it returns, whatever
\* max_iterations is: it never returns before a pass, and with
\* max_iterations <= 0 the first pass invokes every registered agent once,
\* evaluates, appends one history record, and the stop check returns, with
\* iteration = 1 and one history record, so that the returned iteration
\* exceeds max_iterations
C36_AtLeastOnePass ==
  /\ [](pc = "done" => (iteration >= 1 /\ Len(debate_history) >= 1 /\ decision # None))
  /\ [][(CallAgentsStep /\ max_iterations <= 0)
        => (iteration = 1 /\ NamesInOrder(invoked') = NamesInOrder(agents))]_vars
  /\ [][(pc = "check" /\ max_iterations <= 0) => pc' = "done"]_vars
  /\ []((pc = "done" /\ max_iterations <= 0)
        => /\ iteration = 1
           /\ Len(debate_history) = 1
           /\ iteration > max_iterations)

\* orchestrate has returned from a run with a negative max_iterations in which
\* the agent reported
C36_Witness ==
  /\ pc = "done"
  /\ max_iterations < 0
  /\ iteration = 1
  /\ debate_history[1].verdicts["risk_qualification"] = "REJECT"

\* ---- C37 ----
\* the agent whose slot is k did not store an output in the pass under way
NotStoredThisPass(rets, k) == k \in DOMAIN rets /\ ~ReturnedValid(rets, k)

\* C37: a slot that holds an output is never cleared: a step leaves it as it
\* is, or call_agents overwrites it with the valid output its own agent
\* returned in that pass.  So the output of an agent that raises or returns an
\* invalid output in a later pass is still read by the evaluation of that pass
\* (under the rules strategy its REJECT is the reason of the decision) and its
\* verdict is in the history record of that pass.
C37_SlotsNeverCleared ==
  /\ [][\A k \in Present :
          \/ slots'[k] = slots[k]
          \/ /\ CallAgentsStep
             /\ k \in RegisteredNames(agents)
             /\ ReturnedValid(returns', k)
             /\ slots'[k] = returns'[k].output]_vars
  /\ [](\A k \in Present :
          (pc = "record" /\ ~UsesService /\ NotStoredThisPass(returns, k))
          => /\ decision = evaluate_council(slots)
             /\ slots[k].verdict = "REJECT" => decision.reason = "REJECT")
  /\ [](\A k \in Present :
          (pc = "check" /\ NotStoredThisPass(returns, k))
          => debate_history[Len(debate_history)].verdicts[k] = slots[k].verdict)

\* the second pass, in which the agent raised, is decided by the REJECT the
\* agent returned in the first pass
C37_Witness ==
  /\ pc = "check"
  /\ iteration = 2
  /\ ~UsesService
  /\ "risk_qualification" \in Present
  /\ NotStoredThisPass(returns, "risk_qualification")
  /\ decision.reason = "REJECT"
  /\ debate_history[2].verdicts["risk_qualification"] = "REJECT"

\* ---- C38 ----
\* C38: modification context is never cleared: what apply_modifications has
\* written to pending_modifications or modification_synthesis is changed by no
\* other step, stays when apply_modifications runs in a later pass in which no
\* slot has verdict MODIFY, and is in the state finally returned
C38_ModificationContextKept ==
  /\ [][~ApplyModificationsStep
        => /\ pending_modifications' = pending_modifications
           /\ modification_synthesis' = modification_synthesis]_vars
  /\ [][(ApplyModificationsStep /\ \A k \in Present : slots[k].verdict # "MODIFY")
        => /\ pending_modifications' = pending_modifications
           /\ modification_synthesis' = modification_synthesis]_vars
  /\ [][/\ pending_modifications # Missing => pending_modifications' # Missing
        /\ modification_synthesis # Missing => modification_synthesis' # Missing]_vars

\* orchestrate has returned from the third pass with the pending_modifications
\* of the first pass, after a second pass that ended with a REJECT in the slot
C38_Witness ==
  /\ pc = "done"
  /\ iteration = 3
  /\ debate_history[1].verdicts["risk_qualification"] = "MODIFY"
  /\ debate_history[2].verdicts["risk_qualification"] = "REJECT"
  /\ pending_modifications # Missing
  /\ pending_modifications.value[1].agent = "risk_qualification"

====
